---- MODULE Spec2Model ----
(***************************************************************************)
(* A model of ftl's maybe<A> (include/ftl/maybe.h) and of the std::tuple   *)
(* instances (include/ftl/tuple.h).                                        *)
(*                                                                         *)
(*   Spec       the life cycle of maybe<A> objects: constructors,          *)
(*              destructor, copy/move assignment, operator* / operator->   *)
(*   AlgSpec    the pure operations over maybe values: comparisons,        *)
(*              monoid<maybe<A>>, monad<maybe>                             *)
(*   TupleSpec  monoid / functor / applicative over std::tuple and the     *)
(*              free helper apply(f, t)                                    *)
(***************************************************************************)
EXTENDS Integers, Sequences, FiniteSets, TLC

\* ------------------------------------------------------------------ bounds
NumObj == 2
MaxVal == 2
MaxCtors == 4
MaxThrows == 1
MaxArity == 3

Obj == 1..NumObj
\* The values of the contained type A.
Val == 0..MaxVal

\* The storage cell `val` while no A is constructed in it.
Raw == -1

VARIABLES
    ms,       \* Spec: the maybe objects, [alive, isValid, cell]
    ctors,    \* Spec: constructions of an A in some maybe's storage
    dtors,    \* Spec: runs of ~A() on some maybe's storage
    throws,   \* Spec: constructions of A that threw
    last,     \* Spec: the last operation, with what it saw and returned
    x, y, z,  \* AlgSpec: three maybe values
    out,      \* AlgSpec: the last pure operation and its result
    tx, ty,   \* TupleSpec: the caller's tuples
    tout      \* TupleSpec: the last tuple operation and its result

lifeVars == <<ms, ctors, dtors, throws, last>>
algVars == <<x, y, z, out>>
tupVars == <<tx, ty, tout>>
vars == <<ms, ctors, dtors, throws, last, x, y, z, out, tx, ty, tout>>

\* --------------------------------------------------------- maybe<A>: state

\* A maybe that does not exist (not yet constructed, or destructed).
Dead == [alive |-> FALSE, isValid |-> FALSE, cell |-> Raw]

\* maybe(): isValid = false, no A is constructed.
Nothing == [alive |-> TRUE, isValid |-> FALSE, cell |-> Raw]

\* maybe(const A&), maybe(A&&), maybe(inplace_tag, ...): isValid(true), then
\* the placement new.
Value(v) == [alive |-> TRUE, isValid |-> TRUE, cell |-> v]

\* Reading the cell as an A (reinterpret_cast<A&>(val)): the A that lives
\* there, or, with no A constructed in it, an indeterminate one.
ReadA(cell) == IF cell = Raw THEN Val ELSE {cell}

\* value_type(m.val) in the two assignment operators: the A is constructed
\* from the aligned_storage object itself (there is no reinterpret_cast as in
\* the copy and move constructors), by whatever converting constructor A has
\* for it; the library fixes nothing about the result.
FromStorage(cell) == Val

\* The state an A is left in by being moved from: valid, unspecified.
MovedFrom(cell) == IF cell = Raw THEN {Raw} ELSE Val

\* self_destruct(): the maybe afterwards.
SelfDestruct(m) ==
    IF m.isValid THEN [m EXCEPT !.isValid = FALSE, !.cell = Raw] ELSE m

\* self_destruct(): the number of ~A() calls it makes.
DtorRuns(m) == IF m.isValid THEN 1 ELSE 0

isValue(m) == m.isValid

isNothing(m) == ~m.isValid

NoRet == [threw |-> FALSE, cell |-> Raw]

\* operator* and operator->, const and not: std::logic_error when !isValid,
\* else the storage cell read as an A.
Deref(m) ==
    IF ~m.isValid
      THEN [threw |-> TRUE, cell |-> Raw]
      ELSE [threw |-> FALSE, cell |-> m.cell]

Snap(m) == [isValid |-> m.isValid, cell |-> m.cell]

Op(name, d, s, threw, ret) ==
    [op |-> name, dst |-> d, src |-> s, threw |-> threw,
     srcWas |-> Snap(ms[s]), dstWas |-> Snap(ms[d]), ret |-> ret]

\* ------------------------------------------------------- maybe<A>: actions

\* maybe() / maybe::nothing()
DefaultConstruct(o) ==
    /\ ~ms[o].alive
    /\ ms' = [ms EXCEPT ![o] = Nothing]
    /\ last' = Op("default", o, o, FALSE, NoRet)
    /\ UNCHANGED <<algVars, tupVars>>
    /\ UNCHANGED <<ctors, dtors, throws>>

\* maybe(const A&), maybe(A&&), maybe(inplace_tag, Ts&&...): an exception of
\* A's constructor leaves no maybe behind.
ValueConstruct(o, v, fail) ==
    /\ ~ms[o].alive
    /\ IF fail
         THEN /\ throws < MaxThrows
              /\ throws' = throws + 1
              /\ UNCHANGED <<ms, ctors>>
         ELSE /\ ctors < MaxCtors
              /\ ms' = [ms EXCEPT ![o] = Value(v)]
              /\ ctors' = ctors + 1
              /\ UNCHANGED throws
    /\ last' = Op("value", o, o, fail, NoRet)
    /\ UNCHANGED <<algVars, tupVars>>
    /\ UNCHANGED dtors

\* maybe(const maybe& m)
CopyConstruct(o, s, fail) ==
    /\ ~ms[o].alive
    /\ ms[s].alive
    /\ IF ~ms[s].isValid
         THEN /\ ~fail
              /\ ms' = [ms EXCEPT ![o] = Nothing]
              /\ UNCHANGED <<ctors, throws>>
         ELSE IF fail
           THEN /\ throws < MaxThrows
                /\ throws' = throws + 1
                /\ UNCHANGED <<ms, ctors>>
           ELSE /\ ctors < MaxCtors
                /\ \E v \in ReadA(ms[s].cell) :
                      ms' = [ms EXCEPT ![o] = Value(v)]
                /\ ctors' = ctors + 1
                /\ UNCHANGED throws
    /\ last' = Op("copyConstruct", o, s, fail, NoRet)
    /\ UNCHANGED <<algVars, tupVars>>
    /\ UNCHANGED dtors

\* maybe(maybe&& m)
MoveConstruct(o, s, fail) ==
    /\ ~ms[o].alive
    /\ ms[s].alive
    /\ IF ~ms[s].isValid
         THEN /\ ~fail
              /\ ms' = [ms EXCEPT ![o] = Nothing]
              /\ UNCHANGED <<ctors, throws>>
         ELSE IF fail
           THEN /\ throws < MaxThrows
                /\ throws' = throws + 1
                /\ UNCHANGED <<ms, ctors>>
           ELSE /\ ctors < MaxCtors
                /\ \E v \in ReadA(ms[s].cell), w \in MovedFrom(ms[s].cell) :
                      ms' = [ms EXCEPT
                               ![o] = Value(v),
                               ![s] = [@ EXCEPT !.isValid = FALSE, !.cell = w]]
                /\ ctors' = ctors + 1
                /\ UNCHANGED throws
    /\ last' = Op("moveConstruct", o, s, fail, NoRet)
    /\ UNCHANGED <<algVars, tupVars>>
    /\ UNCHANGED dtors

\* ~maybe()
Destroy(o) ==
    /\ ms[o].alive
    /\ ms' = [ms EXCEPT ![o] = Dead]
    /\ dtors' = dtors + DtorRuns(ms[o])
    /\ last' = Op("destroy", o, o, FALSE, NoRet)
    /\ UNCHANGED <<algVars, tupVars>>
    /\ UNCHANGED <<ctors, throws>>

\* operator=(const maybe& m)
CopyAssign(d, s, fail) ==
    /\ ms[d].alive
    /\ ms[s].alive
    /\ IF d = s
         THEN /\ ~fail
              /\ UNCHANGED <<ms, ctors, dtors, throws>>
         ELSE /\ dtors' = dtors + DtorRuns(ms[d])
              /\ IF ~ms[s].isValid
                   THEN /\ ~fail
                        /\ ms' = [ms EXCEPT ![d] = SelfDestruct(@)]
                        /\ UNCHANGED <<ctors, throws>>
                   ELSE IF fail
                     THEN /\ throws < MaxThrows
                          /\ throws' = throws + 1
                          /\ ms' = [ms EXCEPT
                                     ![d] = [SelfDestruct(@) EXCEPT !.isValid = TRUE]]
                          /\ UNCHANGED ctors
                     ELSE /\ ctors < MaxCtors
                          /\ \E v \in FromStorage(ms[s].cell) :
                                ms' = [ms EXCEPT ![d] = Value(v)]
                          /\ ctors' = ctors + 1
                          /\ UNCHANGED throws
    /\ last' = Op("copyAssign", d, s, fail, NoRet)
    /\ UNCHANGED <<algVars, tupVars>>

\* operator=(maybe&& m)
MoveAssign(d, s, fail) ==
    /\ ms[d].alive
    /\ ms[s].alive
    /\ IF d = s
         THEN /\ ~fail
              /\ UNCHANGED <<ms, ctors, dtors, throws>>
         ELSE /\ dtors' = dtors + DtorRuns(ms[d])
              /\ IF ~ms[s].isValid
                   THEN /\ ~fail
                        /\ ms' = [ms EXCEPT ![d] = SelfDestruct(@)]
                        /\ UNCHANGED <<ctors, throws>>
                   ELSE IF fail
                     THEN /\ throws < MaxThrows
                          /\ throws' = throws + 1
                          /\ ms' = [ms EXCEPT
                                     ![d] = [SelfDestruct(@) EXCEPT !.isValid = TRUE]]
                          /\ UNCHANGED ctors
                     ELSE /\ ctors < MaxCtors
                          /\ \E v \in FromStorage(ms[s].cell),
                                w \in MovedFrom(ms[s].cell) :
                                ms' = [ms EXCEPT
                                         ![d] = Value(v),
                                         ![s] = [@ EXCEPT !.isValid = FALSE,
                                                          !.cell = w]]
                          /\ ctors' = ctors + 1
                          /\ UNCHANGED throws
    /\ last' = Op("moveAssign", d, s, fail, NoRet)
    /\ UNCHANGED <<algVars, tupVars>>

\* operator*() / operator->(), const and not
Unwrap(o) ==
    /\ ms[o].alive
    /\ last' = Op("unwrap", o, o, Deref(ms[o]).threw, Deref(ms[o]))
    /\ UNCHANGED <<algVars, tupVars>>
    /\ UNCHANGED <<ms, ctors, dtors, throws>>

LifeInit ==
    /\ ms = [o \in Obj |-> Dead]
    /\ ctors = 0
    /\ dtors = 0
    /\ throws = 0
    /\ last = [op |-> "init", dst |-> 1, src |-> 1, threw |-> FALSE,
               srcWas |-> Snap(Dead), dstWas |-> Snap(Dead), ret |-> NoRet]

AlgIdle ==
    /\ x = Snap(Nothing)
    /\ y = Snap(Nothing)
    /\ z = Snap(Nothing)
    /\ out = [op |-> "init"]

TupIdle ==
    /\ tx = <<0>>
    /\ ty = <<0>>
    /\ tout = [op |-> "init"]

Init == LifeInit /\ AlgIdle /\ TupIdle

Next ==
    \/ \E o \in Obj : DefaultConstruct(o)
    \/ \E o \in Obj, v \in Val, fail \in BOOLEAN : ValueConstruct(o, v, fail)
    \/ \E o \in Obj, s \in Obj, fail \in BOOLEAN : CopyConstruct(o, s, fail)
    \/ \E o \in Obj, s \in Obj, fail \in BOOLEAN : MoveConstruct(o, s, fail)
    \/ \E o \in Obj : Destroy(o)
    \/ \E d \in Obj, s \in Obj, fail \in BOOLEAN : CopyAssign(d, s, fail)
    \/ \E d \in Obj, s \in Obj, fail \in BOOLEAN : MoveAssign(d, s, fail)
    \/ \E o \in Obj : Unwrap(o)

Spec == Init /\ [][Next]_vars

\* ------------------------------------------- maybe<A>: the pure operations

\* maybe<A>::nothing() as a value.
nothing == Snap(Nothing)

\* value(a): maybe<A>(a).
value(a) == Snap(Value(a))

\* The maybe values the constructors build.
Maybes == {nothing} \cup {value(v) : v \in Val}

\* operator bool()
ToBool(m) == isValue(m)

\* A's own operators: A is an unsigned integer of MaxVal + 1 values, its
\* monoid is the sum (wrapping).
EqA(a, b) == a = b

LtA(a, b) == a < b

GtA(a, b) == a > b

AppendA(a, b) == (a + b) % (MaxVal + 1)

\* The outcome of a comparison: a bool, or the std::logic_error of a
\* dereference made on the way.
Returned(b) == [threw |-> FALSE, val |-> b]

Propagate(d1, d2, b) ==
    IF d1.threw \/ d2.threw THEN [threw |-> TRUE, val |-> FALSE] ELSE Returned(b)

\* operator==(const maybe<A>&, const maybe<A>&)
OpEq(m1, m2) ==
    IF ToBool(m1) /\ ToBool(m2)
      THEN Propagate(Deref(m1), Deref(m2), EqA(Deref(m1).cell, Deref(m2).cell))
      ELSE IF ~ToBool(m1) /\ ~ToBool(m2)
        THEN Returned(TRUE)
        ELSE Returned(FALSE)

\* operator!=(const maybe<A>&, const maybe<A>&)
OpNe(m1, m2) ==
    IF OpEq(m1, m2).threw THEN OpEq(m1, m2) ELSE Returned(~OpEq(m1, m2).val)

\* A mutant of operator<: the operands are dereferenced without a look at
\* their flags.
OpLt_NoPresenceTest(m1, m2) ==
    Propagate(Deref(m1), Deref(m2), LtA(Deref(m1).cell, Deref(m2).cell))

\* operator<(const maybe<A>&, const maybe<A>&)
OpLt(m1, m2) ==
    IF ToBool(m1)
      THEN IF ToBool(m2)
             THEN Propagate(Deref(m1), Deref(m2),
                            LtA(Deref(m1).cell, Deref(m2).cell))
             ELSE Returned(FALSE)
      ELSE IF ToBool(m2)
        THEN Returned(TRUE)
        ELSE Returned(FALSE)

\* operator>(const maybe<A>&, const maybe<A>&)
OpGt(m1, m2) ==
    IF ToBool(m1)
      THEN IF ToBool(m2)
             THEN Propagate(Deref(m1), Deref(m2),
                            GtA(Deref(m1).cell, Deref(m2).cell))
             ELSE Returned(TRUE)
      ELSE IF ToBool(m2)
        THEN Returned(FALSE)
        ELSE Returned(FALSE)

\* monoid<maybe<A>>::id()
MonoidId == nothing

\* A mutant of append: a present m1 is dropped when m2 is absent.
MonoidAppend_DropsLeft(m1, m2) ==
    IF ToBool(m1) /\ ToBool(m2)
      THEN value(AppendA(Deref(m1).cell, Deref(m2).cell))
      ELSE m2

\* monoid<maybe<A>>::append(m1, m2)
MonoidAppend(m1, m2) ==
    IF ToBool(m1)
      THEN IF ToBool(m2)
             THEN value(AppendA(Deref(m1).cell, Deref(m2).cell))
             ELSE m1
      ELSE IF ToBool(m2)
        THEN m2
        ELSE nothing

\* monad<maybe>::pure(a)
MonadPure(a) == value(a)

\* monad<maybe>::map(f, m): m ? value(f(*m)) : maybe<B>(), with the arguments
\* f was called with.
MonadMap(f, m) ==
    IF ToBool(m)
      THEN [result |-> value(f[Deref(m).cell]), calls |-> <<Deref(m).cell>>]
      ELSE [result |-> nothing, calls |-> <<>>]

\* A mutant of bind: f is called on a default A when m is absent.
MonadBind_CallsOnAbsent(m, f) ==
    IF ToBool(m)
      THEN [result |-> f[Deref(m).cell], calls |-> <<Deref(m).cell>>]
      ELSE [result |-> f[0], calls |-> <<0>>]

\* monad<maybe>::bind(m, f): m ? f(*m) : maybe<B>(), with the arguments f was
\* called with.
MonadBind(m, f) ==
    IF ToBool(m)
      THEN [result |-> f[Deref(m).cell], calls |-> <<Deref(m).cell>>]
      ELSE [result |-> nothing, calls |-> <<>>]

\* The user functions handed to map and to bind.
Fns == [Val -> Val]

Kleisli == [Val -> Maybes]

\* The operations below are pure: a behaviour of AlgSpec is one call on
\* operands x, y, z that the constructors built.

\* m1 == m2, m1 != m2, m1 < m2, m1 > m2
AlgCompare ==
    /\ out.op = "init"
    /\ out' = [op |-> "compare", eq |-> OpEq(x, y), ne |-> OpNe(x, y),
               lt |-> OpLt(x, y), gt |-> OpGt(x, y)]
    /\ UNCHANGED <<x, y, z, lifeVars, tupVars>>

\* monoid<maybe<A>>::append over x, y, z and id()
AlgAppend ==
    /\ out.op = "init"
    /\ out' = [op |-> "append",
               xy |-> MonoidAppend(x, y),
               idx |-> MonoidAppend(MonoidId, x),
               xid |-> MonoidAppend(x, MonoidId),
               xy_z |-> MonoidAppend(MonoidAppend(x, y), z),
               x_yz |-> MonoidAppend(x, MonoidAppend(y, z))]
    /\ UNCHANGED <<x, y, z, lifeVars, tupVars>>

\* monad<maybe>::map(f, x)
AlgMap(f) ==
    /\ out.op = "init"
    /\ out' = [op |-> "map", f |-> f, r |-> MonadMap(f, x)]
    /\ UNCHANGED <<x, y, z, lifeVars, tupVars>>

\* monad<maybe>::bind(x, k)
AlgBind(k) ==
    /\ out.op = "init"
    /\ out' = [op |-> "bind", f |-> k, r |-> MonadBind(x, k)]
    /\ UNCHANGED <<x, y, z, lifeVars, tupVars>>

AlgInit ==
    /\ LifeInit
    /\ TupIdle
    /\ x \in Maybes
    /\ y \in Maybes
    /\ z \in Maybes
    /\ out = [op |-> "init"]

AlgNext ==
    \/ AlgCompare
    \/ AlgAppend
    \/ \E f \in Fns : AlgMap(f)
    \/ \E k \in Kleisli : AlgBind(k)

AlgSpec == AlgInit /\ [][AlgNext]_vars

\* --------------------------------------------------- std::tuple instances

\* std::tuple<Ts...> over A, of 1 to MaxArity elements; std::get<i> is t[i + 1].
Tuples == UNION {[1..n -> Val] : n \in 1..MaxArity}

\* A value-initialised element of a default-constructed std::tuple.
DefaultA == 0

\* std::tuple<B, Ts...> ret;
DefaultTuple(n) == [i \in 1..n |-> DefaultA]

\* tup<N, T>::app(ret, t2): the ret it leaves.
RECURSIVE TupApp(_, _, _)
TupApp(N, ret, t2) ==
    IF N = 0
      THEN [ret EXCEPT ![1] = AppendA(ret[1], t2[1])]
      ELSE LET r == TupApp(N - 1, ret, t2)
           IN  [r EXCEPT ![N + 1] = AppendA(r[N + 1], t2[N + 1])]

\* tup<N, T>::fmap(f, ret, o): the ret it leaves.
RECURSIVE TupFmap(_, _, _, _)
TupFmap(N, f, ret, o) ==
    IF N = 0
      THEN [ret EXCEPT ![1] = f[o[1]]]
      ELSE LET r == TupFmap(N - 1, f, ret, o)
           IN  [r EXCEPT ![N + 1] = o[N + 1]]

\* seq<0, sizeof...(Ts) - 1>: the index pack written at the call.
SeqOf(a, b) == <<a, b>>

\* gen_seq<Z, N>::type: the index pack Z, Z + 1, ..., N.
GenSeq(Z, N) == [i \in 1..(N - Z + 1) |-> Z + i - 1]

\* tup_apply(seq<S...>, f, t): f(std::get<S>(t)...), as the arguments f gets.
TupApply(S, t) == [i \in 1..Len(S) |-> t[S[i] + 1]]

\* apply_on_first(t1, t2, seq<S...>), t1 being (f, r1, ..., rk)
ApplyOnFirst(f, t1, t2, S) ==
    <<f[t2[1]]>> \o [i \in 1..Len(S) |-> AppendA(t1[S[i] + 1], t2[S[i] + 1])]

\* applicative_implementation(t1, t2)
ApplicativeImplementation(f, t1, t2) ==
    ApplyOnFirst(f, t1, t2, GenSeq(1, Len(t1) - 1))

\* monoid<std::tuple<Ts...>>::append(t1, t2): auto ret = t1; app(ret, t2).
TupleAppend(a, b) == TupApp(Len(a) - 1, a, b)

\* functor<std::tuple>::map(f, t): ret is default-constructed, fmap is called
\* as tup<sizeof...(Ts) - 1, ...>::fmap(f, t, ret), ret is returned. The record
\* is the caller's t afterwards (t is taken by reference) and the result.
FunctorMap(f, t) ==
    [t |-> TupFmap(Len(t) - 2, f, t, DefaultTuple(Len(t))),
     result |-> DefaultTuple(Len(t))]

\* applicative<std::tuple>::map(f, t): t is taken by value and handed to
\* functor<std::tuple>::map.
ApplicativeMap(f, t) == [t |-> t, result |-> FunctorMap(f, t).result]

\* applicative<std::tuple>::apply(tfn, t), tfn being (f, r1, ..., rk)
ApplicativeApply(f, tfn, t) == ApplicativeImplementation(f, tfn, t)

\* apply(F f, const std::tuple<Ts...>& t) and apply(F f, std::tuple<Ts...>&& t):
\* the argument lists f is called with.
FreeApply(t) == <<TupApply(SeqOf(0, Len(t) - 1), t)>>

\* The operations are called on the caller's tuples tx and ty; tout keeps the
\* operands as they were before the call.

DoAppend ==
    /\ tout' = [op |-> "append", a |-> tx, b |-> ty, r |-> TupleAppend(tx, ty)]
    /\ UNCHANGED <<tx, ty, lifeVars, algVars>>

\* functor<std::tuple>::map is instantiated for tuples of two elements or more
\* (tup<sizeof...(Ts) - 1, ...> has no instance for an empty Ts).
DoFunctorMap(f) ==
    /\ Len(tx) >= 2
    /\ tout' = [op |-> "fmap", a |-> tx, b |-> ty, f |-> f,
                r |-> FunctorMap(f, tx).result]
    /\ tx' = FunctorMap(f, tx).t
    /\ UNCHANGED <<ty, lifeVars, algVars>>

DoApplicativeMap(f) ==
    /\ Len(tx) >= 2
    /\ tout' = [op |-> "amap", a |-> tx, b |-> ty, f |-> f,
                r |-> ApplicativeMap(f, tx).result]
    /\ tx' = ApplicativeMap(f, tx).t
    /\ UNCHANGED <<ty, lifeVars, algVars>>

\* tx gives the tail (r1, ..., rk) of tfn, f is its head.
DoApplicativeApply(f) ==
    /\ Len(tx) >= 2
    /\ tout' = [op |-> "apply", a |-> tx, b |-> ty, f |-> f,
                r |-> ApplicativeApply(f, tx, ty)]
    /\ UNCHANGED <<tx, ty, lifeVars, algVars>>

DoFreeApply ==
    /\ tout' = [op |-> "call", a |-> tx, b |-> ty, calls |-> FreeApply(tx)]
    /\ UNCHANGED <<tx, ty, lifeVars, algVars>>

TupleInit ==
    /\ LifeInit
    /\ AlgIdle
    /\ tx \in Tuples
    /\ ty \in Tuples
    /\ Len(tx) = Len(ty)
    /\ tout = [op |-> "init"]

TupleNext ==
    \/ DoAppend
    \/ \E f \in Fns : DoFunctorMap(f)
    \/ \E f \in Fns : DoApplicativeMap(f)
    \/ \E f \in Fns : DoApplicativeApply(f)
    \/ DoFreeApply

TupleSpec == TupleInit /\ [][TupleNext]_vars

\* ------------------------------------------------- claims about the life cycle

AllDestroyed == \A o \in Obj : ~ms[o].alive

\* C1: every A constructed in a maybe's storage has its destructor run exactly
\* once, so once all maybes are destroyed the number of A destructions equals
\* the number of A constructions.
C1_DestroyedExactlyOnce == AllDestroyed => dtors = ctors

\* C2: a copy or move assignment (into a maybe distinct from the source) whose
\* construction of A throws leaves the destination absent, and no maybe is ever
\* flagged present over a storage cell with no A constructed in it (the half
\* of "flag set iff an A is constructed" that a failed assignment bears on;
\* the other half, a constructed A under a cleared flag, is C1's subject).
C2_FailedAssignLeavesAbsent ==
    /\ ( /\ last.op \in {"copyAssign", "moveAssign"}
         /\ last.threw
         /\ last.dst # last.src ) => ~isValue(ms[last.dst])
    /\ \A o \in Obj : (ms[o].alive /\ isValue(ms[o])) => ms[o].cell # Raw

\* C3: unwrapping an absent maybe signals std::logic_error and does not return
\* the storage cell, unwrapping a present maybe returns the contained value
\* (never a cell with no A in it), and the presence flag is the same after the
\* call as before, in every reachable state.
C3_UnwrapChecksPresence ==
    last.op = "unwrap" =>
        /\ ~last.dstWas.isValid => (last.ret.threw /\ last.ret.cell = Raw)
        /\ last.dstWas.isValid => (~last.ret.threw /\ last.ret.cell \in Val)
        /\ ~last.ret.threw => last.ret.cell # Raw
        /\ ms[last.dst].isValid = last.dstWas.isValid

\* C4: after a move construction or move assignment (that completed) from a
\* present source distinct from the destination, the source is absent and the
\* destination is present holding the value the source held before; from an
\* absent source, both are absent afterwards.
C4_MoveTransfersValue ==
    ( /\ last.op \in {"moveConstruct", "moveAssign"}
      /\ ~last.threw
      /\ last.dst # last.src ) =>
        IF last.srcWas.isValid
          THEN /\ isNothing(ms[last.src])
               /\ isValue(ms[last.dst])
               /\ ms[last.dst].cell = last.srcWas.cell
          ELSE /\ isNothing(ms[last.src])
               /\ isNothing(ms[last.dst])

\* --------------------------------------- claims about the pure operations

\* C7: monoid<maybe<A>> satisfies the monoid laws with id() = absent (A's
\* append being associative): append(id(), x) = x, append(x, id()) = x,
\* append(append(x, y), z) = append(x, append(y, z)); two present operands
\* give present(append_A), a single absent operand gives the other operand.
C7_MonoidLaws ==
    out.op = "append" =>
        /\ out.idx = x
        /\ out.xid = x
        /\ out.xy_z = out.x_yz
        /\ out.xy = IF isValue(x) /\ isValue(y)
                      THEN value(AppendA(x.cell, y.cell))
                      ELSE IF isValue(x) THEN x ELSE y

C7_Witness ==
    /\ out.op = "append"
    /\ isValue(x) /\ isValue(y) /\ isValue(z)
    /\ x.cell + y.cell > MaxVal
    /\ out.xy_z # x

\* C8: monad<maybe>::map(f, m) is present(f(v)) when m is present(v) and absent
\* otherwise, bind(m, k) is k(v) when m is present(v) and absent otherwise, and
\* f and k are called exactly once on a present input and never on an absent one.
C8_AppliedOnlyWhenPresent ==
    /\ out.op = "map" =>
          IF isValue(x)
            THEN out.r.result = value(out.f[x.cell]) /\ out.r.calls = <<x.cell>>
            ELSE out.r.result = nothing /\ out.r.calls = <<>>
    /\ out.op = "bind" =>
          IF isValue(x)
            THEN out.r.result = out.f[x.cell] /\ out.r.calls = <<x.cell>>
            ELSE out.r.result = nothing /\ out.r.calls = <<>>

C8_Witness ==
    /\ out.op = "bind"
    /\ isNothing(x)
    /\ \A v \in Val : isValue(out.f[v])
    /\ out.r.result = nothing

\* C9: absent is strictly below every present value and otherwise the order is
\* A's: m1 < m2 is true for absent/present, false when m2 is absent, v1 < v2
\* for two present; operator> mirrors it; two absent maybes are equal and
\* neither less nor greater; an absent and a present maybe are never equal; no
\* comparison raises the std::logic_error of a dereference.
C9_AbsentBelowPresent ==
    out.op = "compare" =>
        /\ ~out.lt.threw /\ ~out.gt.threw /\ ~out.eq.threw /\ ~out.ne.threw
        /\ out.lt.val = IF isNothing(y) THEN FALSE
                        ELSE IF isNothing(x) THEN TRUE ELSE x.cell < y.cell
        /\ out.gt.val = IF isNothing(x) THEN FALSE
                        ELSE IF isNothing(y) THEN TRUE ELSE x.cell > y.cell
        /\ (isNothing(x) /\ isNothing(y)) =>
              (out.eq.val /\ ~out.ne.val /\ ~out.lt.val /\ ~out.gt.val)
        /\ (isNothing(x) # isNothing(y)) => (~out.eq.val /\ out.ne.val)

C9_Witness ==
    /\ out.op = "compare"
    /\ isNothing(x)
    /\ isValue(y)
    /\ out.lt.val

\* ----------------------------------------- claims about the tuple instances

\* C5: functor<std::tuple>::map(f, t) and applicative<std::tuple>::map(f, t)
\* return a new tuple whose head is f(a) and whose tail is the tail of the
\* input, unchanged.
C5_MapHeadOnly ==
    tout.op \in {"fmap", "amap"} =>
        tout.r = <<tout.f[tout.a[1]]>> \o Tail(tout.a)

\* C6: apply(f, t) calls f exactly once, with all n elements of t in
\* positional order.
C6_ApplyPassesAllElements ==
    tout.op = "call" => tout.calls = <<tout.a>>

\* C10: monoid append, functor / applicative map and applicative apply leave
\* every element of their input tuples unchanged.
C10_TupleOpsPure ==
    tout.op \in {"append", "fmap", "amap", "apply"} =>
        (tx = tout.a /\ ty = tout.b)

====
